---- MODULE Spec2Model ----
(***************************************************************************)
(* Model of the ursa network service loop (UrsaService): the command       *)
(* mailbox, the pending-query table `response_channels`, the handlers of   *)
(* commands and of swarm events, and the block store shared with the       *)
(* block-exchange tasks.                                                   *)
(***************************************************************************)
EXTENDS Integers, Sequences, FiniteSets, TLC

\* ---------------------------------------------------------------- bounds
NumCids == 2
NumPeers == 1
MaxCmds == 2
MaxEvents == 2
MaxDrops == 1
NumProducers == 2
NumRequests == 2
MaxGossip == 1
MaxSwarm == 2
MaxList == 2
NumAddrs == 2
MaxIgnored == 1
MaxInbound == 3

Cids == 1..NumCids
PeerIds == 1..NumPeers
Sinks == 1..MaxCmds
Producers == 1..NumProducers
Requests == 1..NumRequests
Addrs == 1..NumAddrs
Streams == {"swarm", "command"}

VARIABLES
    pc,                 \* position of the service task: select / wait / reply / panicked / stopped
    cur,                \* locals of the running Bitswap completion handler
    cmdq,               \* commands in the command mailbox (command_receiver)
    nextSink,           \* next command / reply-channel identity handed to a caller
    closed,             \* reply channels whose receiving end the caller dropped
    response_channels,  \* FnvHashMap<Cid, Vec<BlockSenderChannel<()>>>
    queries,            \* block-exchange queries outstanding in the behaviour
    nextQid,            \* next query id the block-exchange behaviour hands out
    peers,              \* peer set reported by the behaviour
    store,              \* identifiers of the blocks present in the local store
    events,             \* external event queue (event_sender / event_receiver)
    answered,           \* replies sent on reply channels, in the order sent
    regLog,             \* reply channels in the order they were registered
    logs,               \* log records emitted by the handlers
    exit,               \* what start has returned ("running" while it has not)
    ended,              \* the streams the select has seen end
    handledLog,         \* commands taken from the mailbox, in the order taken
    swarmLog,           \* swarm events taken from the swarm, in the order taken
    outbox,             \* requests handed to the request/response protocol, not yet sent
    surfaced,           \* RequestMessage events surfaced by the swarms of the peers
    inbound,            \* gossip messages delivered to this node's gossipsub
    ret,                \* value returned by the last handler run that returned
    nat,                \* NAT status held by the behaviour's NAT probe
    listeners,          \* addresses passed to swarm.listen_on by the loop, in order
    relay,              \* configuration: the relay client is enabled
    bootstrap,          \* configuration: bootstrap (peer, address) pairs of discovery
    published,          \* payloads handed to gossipsub by publish
    behaviour_events,   \* Behaviour::events, the queue the behaviour's handlers push to
    dropped,            \* reply senders a handler dropped without sending on them
    clones              \* callers still holding a clone of the command sender

vars == <<pc, cur, cmdq, nextSink, closed, response_channels, queries, nextQid,
          peers, store, events, answered, regLog, logs,
          exit, ended, handledLog, swarmLog, outbox, surfaced, inbound,
          ret, nat, listeners, relay, bootstrap, published,
          behaviour_events, dropped, clones>>

\* the state only the NAT, relay, publish and Put handlers, the gossipsub
\* handler of the behaviour and the callers giving up their senders write
periphery == <<nat, listeners, relay, bootstrap, published,
               behaviour_events, dropped, clones>>

\* ------------------------------------------------------------ data types
BitswapTypes == {"Get", "Sync"}

\* the queries the block-exchange behaviour can hold
AllQueries == [id : 1..MaxCmds, cid : Cids, kind : BitswapTypes]

ReplyOk == [kind |-> "Ok", cid |-> 0]
ReplyNoPeers == [kind |-> "NoPeers", cid |-> 0]
ReplyNotFound(cid) == [kind |-> "NotFound", cid |-> cid]

NoRun == [cid |-> 0, bitswap_cid |-> 0, found |-> FALSE, qid |-> 0,
          chans |-> <<>>, all |-> <<>>]

\* Cid::to_bytes: version byte followed by the hash.
to_bytes(cid) == <<1, cid>>

\* Cid::try_from(bytes): succeeds on a version byte followed by a hash
try_from(bytes) == Len(bytes) >= 2 /\ bytes[1] = 1

\* payloads of gossip messages: the one of the gossip test, and encoded CIDs
Payloads == {<<1>>} \cup {to_bytes(c) : c \in Cids}

\* convert_cid: rebuilds an identifier of the store's Cid type from bytes.
convert_cid(bytes) == bytes[Len(bytes)]

\* BitswapStorage::contains on the shared store.
contains(st, bitswap_cid) == bitswap_cid \in st

NatStatuses == {"Unknown", "Private", "Public"}

\* (peer, address) pairs discovery can hold as bootstrap nodes
BootstrapAddrs == [peer : PeerIds, addr : Addrs]

\* relay_addr.with(Protocol::P2p(relay_peer)).with(Protocol::P2pCircuit)
circuit_addr(b) == <<b.addr, "p2p", b.peer, "p2p-circuit">>

\* the lists of CIDs a StartProviding command can carry
CidLists == UNION {[1..n -> Cids] : n \in 0..MaxList}

\* the swarm events handle_swarm_event matches and ignores
IgnoredSwarmEvents ==
    {"Dialing", "BannedPeer", "NewListenAddr", "ListenerError", "ListenerClosed",
     "ConnectionClosed", "ExpiredListenAddr", "IncomingConnection",
     "ConnectionEstablished", "IncomingConnectionError", "OutgoingConnectionError"}

\* ------------------------------------------------- pending-query table
\* response_channels.get_mut(&cid) / push / insert
register_front(rc, cid, sender) ==
    IF cid \in DOMAIN rc
    THEN [rc EXCEPT ![cid] = <<sender>> \o @]
    ELSE [c \in DOMAIN rc \cup {cid} |-> IF c = cid THEN <<sender>> ELSE rc[c]]

register(rc, cid, sender) ==
    IF cid \in DOMAIN rc
    THEN [rc EXCEPT ![cid] = Append(@, sender)]
    ELSE [c \in DOMAIN rc \cup {cid} |-> IF c = cid THEN <<sender>> ELSE rc[c]]

\* response_channels.remove(&cid): the table without the entry
remove_keep(rc, cid) == rc

\* remove that leaves the key with an empty list
remove_emptied(rc, cid) == [rc EXCEPT ![cid] = <<>>]

\* remove that takes only the first waiter of a longer list
remove_head(rc, cid) ==
    IF Len(rc[cid]) > 1 THEN [rc EXCEPT ![cid] = Tail(@)]
    ELSE [c \in DOMAIN rc \ {cid} |-> rc[c]]

remove(rc, cid) == [c \in DOMAIN rc \ {cid} |-> rc[c]]

\* ------------------------------------------------------------ behaviour
\* Behaviour::get_block / sync_block: start a block-exchange query
get_block(qs, id, cid) == qs \cup {[id |-> id, cid |-> cid, kind |-> "Get"]}

sync_block(qs, id, cid) == qs \cup {[id |-> id, cid |-> cid, kind |-> "Sync"]}

\* cancel that leaves the query with the behaviour
cancel_none(qs, id) == qs

\* Behaviour::cancel(query_id): idempotent
cancel(qs, id) == {q \in qs : q.id # id}

\* the requests the request/response protocol can hold
AllOutbound == [id : Sinks, peer : PeerIds, request : Requests, connected : BOOLEAN]

\* swarm.is_connected(&peer)
is_connected_always(ps, p) == TRUE

is_connected(ps, p) == p \in ps

\* Behaviour::send_request(peer, request, channel): the request is queued in
\* the request/response protocol, which sends it when the swarm is polled
send_request(ob, id, p, request, conn) ==
    ob \cup {[id |-> id, peer |-> p, request |-> request, connected |-> conn]}

\* the Message arm pushing the event whatever the payload
handle_gossipsub_unparsed(data) == <<[type |-> "GossipsubMessage", data |-> data]>>

\* Behaviour::handle_gossipsub(GossipsubEvent::Message): the behaviour
\* events pushed for an inbound message with payload `data`
handle_gossipsub(data) ==
    IF try_from(data) THEN <<[type |-> "GossipsubMessage", data |-> data]>> ELSE <<>>

\* the events gossipsub hands to the behaviour
GossipsubEvents == {"Message", "Subscribed", "Unsubscribed", "GossipsubNotSupported"}

\* Behaviour::handle_gossipsub(event): the match over the event; only the
\* Message arm has a body
handle_gossipsub_event(ev) ==
    IF ev.kind = "Message" THEN handle_gossipsub(ev.data) ELSE <<>>

\* ------------------------------------------------------- swarm settings
\* a << n; the operands used stay far below the width of a u32
shl(a, n) == a * 2^n

\* ConnectionLimits handed to the swarm
max_pending_incoming == shl(2, 9)

max_pending_outgoing == shl(2, 9)

max_established_incoming == shl(2, 9)

max_established_outgoing == shl(2, 9)

max_established_per_peer == 8

\* SwarmBuilder settings
notify_handler_buffer_size == shl(2, 7)

connection_event_buffer_size == shl(2, 7)

dial_concurrency_factor == 8

\* --------------------------------------------------------------- replies
Replies(s) == SelectSeq(answered, LAMBDA a : a.sink = s)

\* position of the reply to s in the order of sending (0: none yet)
ReplyPos(s) ==
    IF \E i \in 1..Len(answered) : answered[i].sink = s
    THEN CHOOSE i \in 1..Len(answered) : answered[i].sink = s
    ELSE 0

Answered(s) == \E i \in 1..Len(answered) : answered[i].sink = s

Registered(s) == \E i \in 1..Len(regLog) : regLog[i].sink = s

\* number of waiters the table holds for cid
TableCount(cid) ==
    IF cid \in DOMAIN response_channels THEN Len(response_channels[cid]) ELSE 0

\* peers.is_empty()
is_empty_never(ps) == FALSE

is_empty(ps) == ps = {}

InTable(s) ==
    \E c \in DOMAIN response_channels :
        \E i \in 1..Len(response_channels[c]) : response_channels[c][i] = s

\* The outcome a waiter of `cid` is sent, decided by a look at the store.
Outcome_unchecked(st, cid, bitswap_cid) == ReplyOk

Outcome_inverted(st, cid, bitswap_cid) ==
    IF contains(st, bitswap_cid) THEN ReplyNotFound(cid) ELSE ReplyOk

Outcome(st, cid, bitswap_cid) ==
    IF contains(st, bitswap_cid) THEN ReplyOk ELSE ReplyNotFound(cid)

\* chan.send(..): the reply is recorded; a dropped receiver makes send fail
Send(s, cid, res, by, found) ==
    answered' = Append(answered, [sink |-> s, cid |-> cid, res |-> res,
                                  by |-> by, found |-> found,
                                  delivered |-> s \notin closed])

Init ==
    /\ pc = "select"
    /\ cur = NoRun
    /\ cmdq = <<>>
    /\ nextSink = 1
    /\ closed = {}
    /\ response_channels = <<>>
    /\ queries = {}
    /\ nextQid = 1
    /\ peers = {}
    /\ store = {}
    /\ events = <<>>
    /\ answered = <<>>
    /\ regLog = <<>>
    /\ logs = {}
    /\ exit = "running"
    /\ ended = {}
    /\ handledLog = <<>>
    /\ swarmLog = <<>>
    /\ outbox = {}
    /\ surfaced = {}
    /\ inbound = <<>>
    /\ ret = "none"
    /\ nat = "Unknown"
    /\ listeners = <<>>
    /\ relay = FALSE
    /\ bootstrap = {}
    /\ published = {}
    /\ behaviour_events = <<>>
    /\ dropped = {}
    /\ clones = Producers

\* ------------------------------------------------------ callers / tasks
\* A caller creates a oneshot channel and sends GetBitswap on the mailbox.
SubmitGetBitswap(pr, c, k) ==
    /\ pc \notin {"panicked", "stopped"}
    /\ pr \in clones
    /\ nextSink <= MaxCmds
    /\ cmdq' = Append(cmdq, [type |-> "GetBitswap", cid |-> c, query |-> k,
                             sender |-> nextSink, from |-> pr])
    /\ nextSink' = nextSink + 1
    /\ UNCHANGED <<pc, cur, closed, response_channels, queries, nextQid, peers,
                   store, events, answered, regLog, logs>>
    /\ UNCHANGED <<exit, ended, handledLog, swarmLog>>
    /\ UNCHANGED <<outbox, surfaced, inbound>>
    /\ UNCHANGED ret
    /\ UNCHANGED periphery

\* A caller sends SendResponse on the mailbox.
SubmitSendResponse(pr) ==
    /\ pc \notin {"panicked", "stopped"}
    /\ pr \in clones
    /\ nextSink <= MaxCmds
    /\ cmdq' = Append(cmdq, [type |-> "SendResponse", cid |-> 0, query |-> "-",
                             sender |-> nextSink, from |-> pr])
    /\ nextSink' = nextSink + 1
    /\ UNCHANGED <<pc, cur, closed, response_channels, queries, nextQid, peers,
                   store, events, answered, regLog, logs>>
    /\ UNCHANGED <<exit, ended, handledLog, swarmLog>>
    /\ UNCHANGED <<outbox, surfaced, inbound>>
    /\ UNCHANGED ret
    /\ UNCHANGED periphery

\* A caller creates a oneshot channel and sends SendRequest on the mailbox.
SubmitSendRequest(pr, p, rq) ==
    /\ pc \notin {"panicked", "stopped"}
    /\ pr \in clones
    /\ nextSink <= MaxCmds
    /\ cmdq' = Append(cmdq, [type |-> "SendRequest", cid |-> 0, query |-> "-",
                             sender |-> nextSink, from |-> pr,
                             peer_id |-> p, request |-> rq])
    /\ nextSink' = nextSink + 1
    /\ UNCHANGED <<pc, cur, closed, response_channels, queries, nextQid, peers,
                   store, events, answered, regLog, logs>>
    /\ UNCHANGED <<exit, ended, handledLog, swarmLog>>
    /\ UNCHANGED <<outbox, surfaced, inbound>>
    /\ UNCHANGED ret
    /\ UNCHANGED periphery

\* Dropping the receiving end also takes the waiter out of the table.
DropReceiver_unregisters(s) ==
    /\ s < nextSink
    /\ pc \notin {"panicked", "stopped"}
    /\ s \notin closed
    /\ Cardinality(closed) < MaxDrops
    /\ ~Answered(s)
    /\ closed' = closed \cup {s}
    /\ response_channels' =
          [c \in DOMAIN response_channels |->
              SelectSeq(response_channels[c], LAMBDA x : x # s)]
    /\ UNCHANGED <<pc, cur, cmdq, nextSink, queries, nextQid,
                   peers, store, events, answered, regLog, logs>>
    /\ UNCHANGED <<exit, ended, handledLog, swarmLog>>
    /\ UNCHANGED <<outbox, surfaced, inbound>>
    /\ UNCHANGED ret
    /\ UNCHANGED periphery

\* The caller drops the receiving end of a reply channel.
DropReceiver(s) ==
    /\ s < nextSink
    /\ pc \notin {"panicked", "stopped"}
    /\ s \notin closed
    /\ Cardinality(closed) < MaxDrops
    /\ ~Answered(s)
    /\ closed' = closed \cup {s}
    /\ UNCHANGED <<pc, cur, cmdq, nextSink, response_channels, queries, nextQid,
                   peers, store, events, answered, regLog, logs>>
    /\ UNCHANGED <<exit, ended, handledLog, swarmLog>>
    /\ UNCHANGED <<outbox, surfaced, inbound>>
    /\ UNCHANGED ret
    /\ UNCHANGED periphery

\* Another task (block exchange, RPC) inserts a block into the shared store.
StoreInsert(c) ==
    /\ pc \notin {"panicked", "stopped"}
    /\ c \notin store
    /\ store' = store \cup {c}
    /\ UNCHANGED <<pc, cur, cmdq, nextSink, closed, response_channels, queries,
                   nextQid, peers, events, answered, regLog, logs>>
    /\ UNCHANGED <<exit, ended, handledLog, swarmLog>>
    /\ UNCHANGED <<outbox, surfaced, inbound>>
    /\ UNCHANGED ret
    /\ UNCHANGED periphery

\* A panic unwinds the service task: the service value is dropped, and with
\* it the mailbox receiver, the pending-query table and the swarm.
Panic ==
    /\ pc' = "panicked"
    /\ cmdq' = <<>>
    /\ response_channels' = <<>>
    /\ queries' = {}
    /\ outbox' = {}

\* ------------------------------------------------------ command handler
\* command_receiver.recv(): the oldest command of the mailbox
dequeue_newest(q) == [cmd |-> q[Len(q)], rest |-> SubSeq(q, 1, Len(q) - 1)]

dequeue(q) == [cmd |-> Head(q), rest |-> Tail(q)]

\* the loop takes a command from the mailbox
Take(cmd) == handledLog' = Append(handledLog, [id |-> cmd.sender, from |-> cmd.from])

\* the loop takes an event from the swarm
Yield(type, arg) == swarmLog' = Append(swarmLog, [type |-> type, arg |-> arg])

\* the event receiver, a field of the service for as long as it lives
event_receivers == 1

\* event_sender.send(event): fails, queueing nothing, without a receiver
emit_front(evs, e) == IF event_receivers = 0 THEN evs ELSE <<e>> \o evs

\* send on a channel whose receiver is gone
emit_closed(evs, e) == evs

emit(evs, e) == IF event_receivers = 0 THEN evs ELSE Append(evs, e)

HandleGetBitswap ==
    /\ pc = "select"
    /\ cmdq # <<>>
    /\ dequeue(cmdq).cmd.type = "GetBitswap"
    /\ LET cmd == dequeue(cmdq).cmd IN
       /\ cmdq' = dequeue(cmdq).rest
       /\ Take(cmd)
       /\ IF is_empty(peers)
          THEN /\ logs' = logs \cup {"no_peers"}
               /\ Send(cmd.sender, cmd.cid, ReplyNoPeers, 0, FALSE)
               /\ UNCHANGED <<response_channels, queries, nextQid, regLog>>
          ELSE /\ response_channels' = register(response_channels, cmd.cid, cmd.sender)
               /\ regLog' = Append(regLog, [sink |-> cmd.sender, cid |-> cmd.cid])
               /\ queries' = IF cmd.query = "Get"
                             THEN get_block(queries, nextQid, cmd.cid)
                             ELSE sync_block(queries, nextQid, cmd.cid)
               /\ nextQid' = nextQid + 1
               /\ UNCHANGED <<answered, logs>>
    /\ UNCHANGED <<pc, cur, nextSink, closed, peers, store, events>>
    /\ UNCHANGED <<exit, ended, swarmLog>>
    /\ UNCHANGED <<outbox, surfaced, inbound>>
    /\ ret' = "Ok"
    /\ UNCHANGED periphery

\* UrsaCommand::SendRequest { peer_id, request, channel }
HandleSendRequest ==
    /\ pc = "select"
    /\ cmdq # <<>>
    /\ dequeue(cmdq).cmd.type = "SendRequest"
    /\ LET cmd == dequeue(cmdq).cmd IN
       /\ cmdq' = dequeue(cmdq).rest
       /\ Take(cmd)
       /\ outbox' = send_request(outbox, cmd.sender, cmd.peer_id, cmd.request,
                                 is_connected(peers, cmd.peer_id))
    /\ UNCHANGED <<pc, cur, nextSink, closed, response_channels, queries, nextQid,
                   peers, store, events, answered, regLog, logs>>
    /\ UNCHANGED <<exit, ended, swarmLog, surfaced, inbound>>
    /\ ret' = "Ok"
    /\ UNCHANGED periphery

\* SendResponse taken while another handler run is under way
HandleSendResponse_reentrant ==
    /\ cmdq # <<>>
    /\ dequeue(cmdq).cmd.type = "SendResponse"
    /\ Take(dequeue(cmdq).cmd)
    /\ Panic
    /\ UNCHANGED <<cur, nextSink, closed, nextQid, peers, store, events,
                   answered, regLog, logs>>
    /\ UNCHANGED <<exit, ended, swarmLog>>
    /\ UNCHANGED <<surfaced, inbound>>
    /\ UNCHANGED ret
    /\ UNCHANGED periphery

\* UrsaCommand::SendResponse => todo!()
HandleSendResponse ==
    /\ pc = "select"
    /\ cmdq # <<>>
    /\ dequeue(cmdq).cmd.type = "SendResponse"
    /\ Take(dequeue(cmdq).cmd)
    /\ Panic
    /\ UNCHANGED <<cur, nextSink, closed, nextQid, peers, store, events,
                   answered, regLog, logs>>
    /\ UNCHANGED <<exit, ended, swarmLog>>
    /\ UNCHANGED <<surfaced, inbound>>
    /\ UNCHANGED ret
    /\ UNCHANGED periphery

\* --------------------------------------------------- swarm-event handler
\* The completion handler with the missing-entry case treated as an empty
\* list of waiters: it still waits on the store.
SwarmBitswap_waits(q, block_found) ==
    /\ pc = "select"
    /\ q \in queries
    /\ Yield("Bitswap", q.id)
    /\ UNCHANGED <<exit, ended, handledLog>>
    /\ queries' = cancel(queries, q.id)
    /\ response_channels' = remove(response_channels, q.cid)
    /\ cur' = [cid |-> q.cid,
               bitswap_cid |-> convert_cid(to_bytes(q.cid)),
               found |-> block_found, qid |-> q.id,
               chans |-> IF q.cid \in DOMAIN response_channels
                         THEN response_channels[q.cid] ELSE <<>>,
               all |-> IF q.cid \in DOMAIN response_channels
                       THEN response_channels[q.cid] ELSE <<>>]
    /\ pc' = IF block_found THEN "wait"
             ELSE IF q.cid \in DOMAIN response_channels THEN "reply" ELSE "select"
    /\ UNCHANGED <<cmdq, nextSink, closed, nextQid, peers, store, events,
                   answered, regLog, logs>>
    /\ UNCHANGED <<outbox, surfaced, inbound>>
    /\ ret' = IF pc' = "select" THEN "Ok" ELSE ret
    /\ UNCHANGED periphery

\* BehaviourEvent::Bitswap(BitswapInfo { cid, query_id, block_found })
SwarmBitswap(q, block_found) ==
    /\ pc = "select"
    /\ q \in queries
    /\ Yield("Bitswap", q.id)
    /\ UNCHANGED <<exit, ended, handledLog>>
    /\ queries' = cancel(queries, q.id)
    /\ IF q.cid \in DOMAIN response_channels
       THEN /\ response_channels' = remove(response_channels, q.cid)
            /\ cur' = [cid |-> q.cid,
                       bitswap_cid |-> convert_cid(to_bytes(q.cid)),
                       found |-> block_found, qid |-> q.id,
                       chans |-> response_channels[q.cid],
                       all |-> response_channels[q.cid]]
            /\ pc' = IF block_found THEN "wait" ELSE "reply"
            /\ UNCHANGED logs
       ELSE /\ logs' = logs \cup {"chan_not_found"}
            /\ UNCHANGED <<response_channels, cur, pc>>
    /\ UNCHANGED <<cmdq, nextSink, closed, nextQid, peers, store, events,
                   answered, regLog>>
    /\ UNCHANGED <<outbox, surfaced, inbound>>
    /\ ret' = IF pc' = "select" THEN "Ok" ELSE ret
    /\ UNCHANGED periphery

\* loop { if blockstore.contains(&bitswap_cid).unwrap() { break; } }
\* An iteration that finds the block absent changes nothing.
BitswapWait ==
    /\ pc = "wait"
    /\ contains(store, cur.bitswap_cid)
    /\ pc' = "reply"
    /\ UNCHANGED <<cur, cmdq, nextSink, closed, response_channels, queries,
                   nextQid, peers, store, events, answered, regLog, logs>>
    /\ UNCHANGED <<exit, ended, handledLog, swarmLog>>
    /\ UNCHANGED <<outbox, surfaced, inbound>>
    /\ UNCHANGED ret
    /\ UNCHANGED periphery

\* The reply loop ends at the first waiter whose receiver was dropped.
BitswapReply_stops_on_closed ==
    /\ pc = "reply"
    /\ cur.chans # <<>>
    /\ LET chan == Head(cur.chans)
           res == Outcome(store, cur.cid, cur.bitswap_cid) IN
       /\ Send(chan, cur.cid, res, cur.qid, cur.found)
       /\ logs' = logs \cup (IF res.kind = "NotFound" THEN {"block_not_found"} ELSE {})
                       \cup (IF chan \in closed THEN {"send_failed"} ELSE {})
       /\ IF Tail(cur.chans) = <<>> \/ chan \in closed
          THEN pc' = "select" /\ cur' = NoRun
          ELSE pc' = pc /\ cur' = [cur EXCEPT !.chans = Tail(@)]
    /\ UNCHANGED <<cmdq, nextSink, closed, response_channels, queries, nextQid,
                   peers, store, events, regLog>>
    /\ UNCHANGED <<exit, ended, handledLog, swarmLog>>
    /\ UNCHANGED <<outbox, surfaced, inbound>>
    /\ ret' = IF pc' = "select" THEN "Ok" ELSE ret
    /\ UNCHANGED periphery

\* One iteration of `for chan in chans.into_iter()`.
BitswapReply ==
    /\ pc = "reply"
    /\ cur.chans # <<>>
    /\ LET chan == Head(cur.chans)
           res == Outcome(store, cur.cid, cur.bitswap_cid) IN
       /\ Send(chan, cur.cid, res, cur.qid, cur.found)
       /\ logs' = logs \cup (IF res.kind = "NotFound" THEN {"block_not_found"} ELSE {})
                       \cup (IF chan \in closed THEN {"send_failed"} ELSE {})
       /\ IF Tail(cur.chans) = <<>>
          THEN pc' = "select" /\ cur' = NoRun
          ELSE pc' = pc /\ cur' = [cur EXCEPT !.chans = Tail(@)]
    /\ UNCHANGED <<cmdq, nextSink, closed, response_channels, queries, nextQid,
                   peers, store, events, regLog>>
    /\ UNCHANGED <<exit, ended, handledLog, swarmLog>>
    /\ UNCHANGED <<outbox, surfaced, inbound>>
    /\ ret' = IF pc' = "select" THEN "Ok" ELSE ret
    /\ UNCHANGED periphery

\* blockstore.contains(..) returns Err: unwrap() panics inside the handler.
BitswapStoreError ==
    /\ pc \in {"wait", "reply"}
    /\ Panic
    /\ UNCHANGED <<cur, nextSink, closed, nextQid, peers, store, events,
                   answered, regLog, logs>>
    /\ UNCHANGED <<exit, ended, handledLog, swarmLog>>
    /\ UNCHANGED <<surfaced, inbound>>
    /\ UNCHANGED ret
    /\ UNCHANGED periphery

\* BehaviourEvent::PeerConnected(peer)
SwarmPeerConnected(p) ==
    /\ pc = "select"
    /\ p \notin peers
    /\ Len(events) < MaxEvents
    /\ peers' = peers \cup {p}
    /\ Yield("PeerConnected", p)
    /\ events' = emit(events, [type |-> "PeerConnected", peer |-> p])
    /\ UNCHANGED <<exit, ended, handledLog>>
    /\ UNCHANGED <<pc, cur, cmdq, nextSink, closed, response_channels, queries,
                   nextQid, store, answered, regLog, logs>>
    /\ UNCHANGED <<outbox, surfaced, inbound>>
    /\ ret' = "Ok"
    /\ UNCHANGED periphery

\* PeerDisconnected handled without forwarding an event
SwarmPeerDisconnected_silent(p) ==
    /\ pc = "select"
    /\ p \in peers
    /\ Len(events) < MaxEvents
    /\ peers' = peers \ {p}
    /\ Yield("PeerDisconnected", p)
    /\ events' = events
    /\ UNCHANGED <<exit, ended, handledLog>>
    /\ UNCHANGED <<pc, cur, cmdq, nextSink, closed, response_channels, queries,
                   nextQid, store, answered, regLog, logs>>
    /\ UNCHANGED <<outbox, surfaced, inbound>>
    /\ ret' = "Ok"
    /\ UNCHANGED periphery

\* BehaviourEvent::PeerDisconnected(peer)
SwarmPeerDisconnected(p) ==
    /\ pc = "select"
    /\ p \in peers
    /\ Len(events) < MaxEvents
    /\ peers' = peers \ {p}
    /\ Yield("PeerDisconnected", p)
    /\ events' = emit(events, [type |-> "PeerDisconnected", peer |-> p])
    /\ UNCHANGED <<exit, ended, handledLog>>
    /\ UNCHANGED <<pc, cur, cmdq, nextSink, closed, response_channels, queries,
                   nextQid, store, answered, regLog, logs>>
    /\ UNCHANGED <<outbox, surfaced, inbound>>
    /\ ret' = "Ok"
    /\ UNCHANGED periphery

\* The loop polls the swarm, which sends a queued request to its connected
\* peer; the swarm of that peer surfaces BehaviourEvent::RequestMessage.
RequestDelivered(o) ==
    /\ pc = "select"
    /\ o \in outbox
    /\ is_connected(peers, o.peer)
    /\ outbox' = outbox \ {o}
    /\ surfaced' = surfaced \cup {[id |-> o.id, peer |-> o.peer, request |-> o.request]}
    /\ UNCHANGED <<pc, cur, cmdq, nextSink, closed, response_channels, queries,
                   nextQid, peers, store, events, answered, regLog, logs>>
    /\ UNCHANGED <<exit, ended, handledLog, swarmLog, inbound>>
    /\ UNCHANGED ret
    /\ UNCHANGED periphery

\* A message published by peer p reaches this node's gossipsub: the
\* behaviour queues BehaviourEvent::GossipMessage { peer, topic, message }
\* or not, and the loop handles what was queued.
SwarmGossipsub(p, data) ==
    /\ pc = "select"
    /\ Len(inbound) < MaxGossip
    /\ Len(events) < MaxEvents
    /\ inbound' = Append(inbound, [peer |-> p, data |-> data,
                                   connected |-> is_connected(peers, p)])
    /\ IF handle_gossipsub(data) # <<>>
       THEN /\ Yield("GossipsubMessage", data)
            /\ IF is_connected(peers, p)
               THEN events' = emit(events, Head(handle_gossipsub(data)))
               ELSE UNCHANGED events
       ELSE UNCHANGED <<swarmLog, events>>
    /\ UNCHANGED <<pc, cur, cmdq, nextSink, closed, response_channels, queries,
                   nextQid, peers, store, answered, regLog, logs>>
    /\ UNCHANGED <<exit, ended, handledLog, outbox, surfaced>>
    /\ ret' = IF handle_gossipsub(data) # <<>> THEN "Ok" ELSE ret
    /\ UNCHANGED periphery

\* ------------------------------------- commands without a table entry
\* A caller creates a oneshot channel and sends Put on the mailbox.
SubmitPut(pr, c) ==
    /\ pc \notin {"panicked", "stopped"}
    /\ pr \in clones
    /\ nextSink <= MaxCmds
    /\ cmdq' = Append(cmdq, [type |-> "Put", cid |-> c, query |-> "-",
                             sender |-> nextSink, from |-> pr])
    /\ nextSink' = nextSink + 1
    /\ UNCHANGED <<pc, cur, closed, response_channels, queries, nextQid, peers,
                   store, events, answered, regLog, logs>>
    /\ UNCHANGED <<exit, ended, handledLog, swarmLog>>
    /\ UNCHANGED <<outbox, surfaced, inbound, ret>>
    /\ UNCHANGED periphery

\* Put answered with Ok
HandlePut_replies ==
    /\ pc = "select"
    /\ cmdq # <<>>
    /\ dequeue(cmdq).cmd.type = "Put"
    /\ LET cmd == dequeue(cmdq).cmd IN
       /\ cmdq' = dequeue(cmdq).rest
       /\ Take(cmd)
       /\ Send(cmd.sender, cmd.cid, ReplyOk, 0, FALSE)
       /\ ret' = "Ok"
    /\ UNCHANGED <<pc, cur, nextSink, closed, response_channels, queries, nextQid,
                   peers, store, events, regLog, logs>>
    /\ UNCHANGED <<exit, ended, swarmLog, outbox, surfaced, inbound>>
    /\ UNCHANGED periphery

\* UrsaCommand::Put { cid, sender } => Ok(()): the command, and with it
\* the sender, is dropped at the end of the arm
HandlePut ==
    /\ pc = "select"
    /\ cmdq # <<>>
    /\ dequeue(cmdq).cmd.type = "Put"
    /\ LET cmd == dequeue(cmdq).cmd IN
       /\ cmdq' = dequeue(cmdq).rest
       /\ Take(cmd)
       /\ dropped' = dropped \cup {cmd.sender}
       /\ ret' = "Ok"
    /\ UNCHANGED <<pc, cur, nextSink, closed, response_channels, queries, nextQid,
                   peers, store, events, answered, regLog, logs>>
    /\ UNCHANGED <<exit, ended, swarmLog, outbox, surfaced, inbound>>
    /\ UNCHANGED <<nat, listeners, relay, bootstrap, published, behaviour_events, clones>>

\* A caller drops its clone of the command sender; what it has sent stays
\* in the mailbox.
DropSender(pr) ==
    /\ pc \notin {"panicked", "stopped"}
    /\ pr \in clones
    /\ clones' = clones \ {pr}
    /\ UNCHANGED <<pc, cur, cmdq, nextSink, closed, response_channels, queries,
                   nextQid, peers, store, events, answered, regLog, logs>>
    /\ UNCHANGED <<exit, ended, handledLog, swarmLog>>
    /\ UNCHANGED <<outbox, surfaced, inbound, ret>>
    /\ UNCHANGED <<nat, listeners, relay, bootstrap, published, behaviour_events, dropped>>

\* gossipsub hands an event to the behaviour while the swarm is polled:
\* Behaviour::handle_gossipsub pushes to the behaviour's queue or does not
BehaviourGossipsub(kind, p, data) ==
    /\ pc = "select"
    /\ Len(inbound) < MaxInbound
    /\ kind # "Message" => data = <<>>
    /\ LET ev == [kind |-> kind, peer |-> p, data |-> data] IN
       /\ inbound' = Append(inbound, ev)
       /\ behaviour_events' = behaviour_events \o handle_gossipsub_event(ev)
    /\ UNCHANGED <<pc, cur, cmdq, nextSink, closed, response_channels, queries,
                   nextQid, peers, store, events, answered, regLog, logs>>
    /\ UNCHANGED <<exit, ended, handledLog, swarmLog>>
    /\ UNCHANGED <<outbox, surfaced, ret>>
    /\ UNCHANGED <<nat, listeners, relay, bootstrap, published, dropped, clones>>

\* A caller creates a oneshot channel and sends GetPeers on the mailbox.
SubmitGetPeers(pr) ==
    /\ pc \notin {"panicked", "stopped"}
    /\ pr \in clones
    /\ nextSink <= MaxCmds
    /\ cmdq' = Append(cmdq, [type |-> "GetPeers", cid |-> 0, query |-> "-",
                             sender |-> nextSink, from |-> pr])
    /\ nextSink' = nextSink + 1
    /\ UNCHANGED <<pc, cur, closed, response_channels, queries, nextQid, peers,
                   store, events, answered, regLog, logs>>
    /\ UNCHANGED <<exit, ended, handledLog, swarmLog>>
    /\ UNCHANGED <<outbox, surfaced, inbound, ret>>
    /\ UNCHANGED periphery

\* A caller creates a oneshot channel and sends StartProviding.
SubmitStartProviding(pr, cids) ==
    /\ pc \notin {"panicked", "stopped"}
    /\ pr \in clones
    /\ nextSink <= MaxCmds
    /\ cmdq' = Append(cmdq, [type |-> "StartProviding", cid |-> 0, query |-> "-",
                             sender |-> nextSink, from |-> pr, cids |-> cids])
    /\ nextSink' = nextSink + 1
    /\ UNCHANGED <<pc, cur, closed, response_channels, queries, nextQid, peers,
                   store, events, answered, regLog, logs>>
    /\ UNCHANGED <<exit, ended, handledLog, swarmLog>>
    /\ UNCHANGED <<outbox, surfaced, inbound, ret>>
    /\ UNCHANGED periphery

\* A caller sends GossipsubMessage { topic, message } on the mailbox.
SubmitGossipsubMessage(pr, data) ==
    /\ pc \notin {"panicked", "stopped"}
    /\ pr \in clones
    /\ nextSink <= MaxCmds
    /\ cmdq' = Append(cmdq, [type |-> "GossipsubMessage", cid |-> 0, query |-> "-",
                             sender |-> nextSink, from |-> pr, message |-> data])
    /\ nextSink' = nextSink + 1
    /\ UNCHANGED <<pc, cur, closed, response_channels, queries, nextQid, peers,
                   store, events, answered, regLog, logs>>
    /\ UNCHANGED <<exit, ended, handledLog, swarmLog>>
    /\ UNCHANGED <<outbox, surfaced, inbound, ret>>
    /\ UNCHANGED periphery

\* Behaviour::peers()
peers_none(ps) == {}

peers_of(ps) == ps

\* UrsaCommand::GetPeers { sender }
HandleGetPeers ==
    /\ pc = "select"
    /\ cmdq # <<>>
    /\ dequeue(cmdq).cmd.type = "GetPeers"
    /\ LET cmd == dequeue(cmdq).cmd IN
       /\ cmdq' = dequeue(cmdq).rest
       /\ Take(cmd)
       /\ Send(cmd.sender, 0, [kind |-> "Peers", peers |-> peers_of(peers)], 0, FALSE)
       /\ ret' = IF cmd.sender \in closed THEN "Err" ELSE "Ok"
    /\ UNCHANGED <<pc, cur, nextSink, closed, response_channels, queries, nextQid,
                   peers, store, events, regLog, logs>>
    /\ UNCHANGED <<exit, ended, swarmLog, outbox, surfaced, inbound>>
    /\ UNCHANGED periphery

\* sender.send(Ok(cids))
provided_reversed(cids) ==
    [kind |-> "Provided", cids |-> [i \in 1..Len(cids) |-> cids[Len(cids) + 1 - i]]]

provided(cids) == [kind |-> "Provided", cids |-> cids]

\* UrsaCommand::StartProviding { cids, sender }; ad_ok: publish_ad succeeded
HandleStartProviding(ad_ok) ==
    /\ pc = "select"
    /\ cmdq # <<>>
    /\ dequeue(cmdq).cmd.type = "StartProviding"
    /\ LET cmd == dequeue(cmdq).cmd IN
       /\ cmdq' = dequeue(cmdq).rest
       /\ Take(cmd)
       /\ Send(cmd.sender, 0, provided(cmd.cids), 0, FALSE)
       /\ logs' = logs \cup (IF ad_ok THEN {"ad_published"} ELSE {"ad_failed"})
       /\ ret' = "Ok"
    /\ UNCHANGED <<pc, cur, nextSink, closed, response_channels, queries, nextQid,
                   peers, store, events, regLog>>
    /\ UNCHANGED <<exit, ended, swarmLog, outbox, surfaced, inbound>>
    /\ UNCHANGED periphery

\* GossipsubMessage whose failed publish is returned to start as an error
HandleGossipsubMessage_surfaces(pub_ok) ==
    /\ pc = "select"
    /\ cmdq # <<>>
    /\ dequeue(cmdq).cmd.type = "GossipsubMessage"
    /\ LET cmd == dequeue(cmdq).cmd IN
       /\ cmdq' = dequeue(cmdq).rest
       /\ Take(cmd)
       /\ IF pub_ok
          THEN published' = published \cup {cmd.message} /\ ret' = "Ok" /\ UNCHANGED logs
          ELSE logs' = logs \cup {"publish_failed"} /\ ret' = "Err" /\ UNCHANGED published
    /\ UNCHANGED <<pc, cur, nextSink, closed, response_channels, queries, nextQid,
                   peers, store, events, answered, regLog>>
    /\ UNCHANGED <<exit, ended, swarmLog, outbox, surfaced, inbound>>
    /\ UNCHANGED <<nat, listeners, relay, bootstrap, behaviour_events, dropped, clones>>

\* UrsaCommand::GossipsubMessage { topic, message }; pub_ok: publish succeeded
HandleGossipsubMessage(pub_ok) ==
    /\ pc = "select"
    /\ cmdq # <<>>
    /\ dequeue(cmdq).cmd.type = "GossipsubMessage"
    /\ LET cmd == dequeue(cmdq).cmd IN
       /\ cmdq' = dequeue(cmdq).rest
       /\ Take(cmd)
       /\ IF pub_ok
          THEN published' = published \cup {cmd.message} /\ UNCHANGED logs
          ELSE logs' = logs \cup {"publish_failed"} /\ UNCHANGED published
       /\ ret' = "Ok"
    /\ UNCHANGED <<pc, cur, nextSink, closed, response_channels, queries, nextQid,
                   peers, store, events, answered, regLog>>
    /\ UNCHANGED <<exit, ended, swarmLog, outbox, surfaced, inbound>>
    /\ UNCHANGED <<nat, listeners, relay, bootstrap, behaviour_events, dropped, clones>>

\* ---------------------------------------------- NAT, requests, the rest
\* BehaviourEvent::NatStatusChanged { old, new }, old being the status so
\* far; b: the bootstrap pair choose() picks; listen_ok: listen_on succeeded
SwarmNatStatusChanged(new, b, listen_ok) ==
    /\ pc = "select"
    /\ Len(swarmLog) < MaxSwarm
    /\ new # nat
    /\ nat' = new
    /\ Yield("NatStatusChanged", <<nat, new>>)
    /\ IF nat = "Unknown" /\ new = "Private" /\ relay /\ bootstrap # {}
       THEN /\ b \in bootstrap
            /\ IF listen_ok
               THEN /\ listeners' = Append(listeners, circuit_addr(b))
                    /\ ret' = "Ok"
                    /\ UNCHANGED <<pc, cmdq, response_channels, queries, outbox>>
               ELSE /\ Panic
                    /\ UNCHANGED <<listeners, ret>>
       ELSE /\ b = CHOOSE x \in BootstrapAddrs : TRUE
            /\ listen_ok
            /\ ret' = "Ok"
            /\ UNCHANGED <<listeners, pc, cmdq, response_channels, queries, outbox>>
    /\ UNCHANGED <<cur, nextSink, closed, nextQid, peers, store, events,
                   answered, regLog, logs>>
    /\ UNCHANGED <<exit, ended, handledLog, surfaced, inbound>>
    /\ UNCHANGED <<relay, bootstrap, published, behaviour_events, dropped, clones>>

\* RequestMessage forwarded twice
SwarmRequestMessage_twice(p, rq) ==
    /\ pc = "select"
    /\ Len(events) + 1 < MaxEvents
    /\ Len(swarmLog) < MaxSwarm
    /\ LET ch == Len(swarmLog) + 1
           e == [type |-> "RequestMessage", request |-> rq, channel |-> ch] IN
       /\ Yield("RequestMessage", [peer |-> p, request |-> rq, channel |-> ch])
       /\ events' = emit(emit(events, e), e)
    /\ ret' = "Ok"
    /\ UNCHANGED <<pc, cur, cmdq, nextSink, closed, response_channels, queries,
                   nextQid, peers, store, answered, regLog, logs>>
    /\ UNCHANGED <<exit, ended, handledLog, outbox, surfaced, inbound>>
    /\ UNCHANGED periphery

\* BehaviourEvent::RequestMessage { peer, request, channel }; the response
\* channel of an inbound request is a fresh one
SwarmRequestMessage(p, rq) ==
    /\ pc = "select"
    /\ Len(events) < MaxEvents
    /\ Len(swarmLog) < MaxSwarm
    /\ LET ch == Len(swarmLog) + 1
           e == [type |-> "RequestMessage", request |-> rq, channel |-> ch] IN
       /\ Yield("RequestMessage", [peer |-> p, request |-> rq, channel |-> ch])
       /\ events' = emit(events, e)
    /\ ret' = "Ok"
    /\ UNCHANGED <<pc, cur, cmdq, nextSink, closed, response_channels, queries,
                   nextQid, peers, store, answered, regLog, logs>>
    /\ UNCHANGED <<exit, ended, handledLog, outbox, surfaced, inbound>>
    /\ UNCHANGED periphery

\* the ignored swarm events taken so far
IgnoredTaken == SelectSeq(swarmLog, LAMBDA t : t.type \in IgnoredSwarmEvents)

\* the swarm event passed on to the external stream
SwarmIgnored_emits(kind) ==
    /\ pc = "select"
    /\ Len(swarmLog) < MaxSwarm
    /\ Len(IgnoredTaken) < MaxIgnored
    /\ Len(events) < MaxEvents
    /\ Yield(kind, 0)
    /\ ret' = "Ok"
    /\ events' = emit(events, [type |-> kind, peer |-> 0])
    /\ UNCHANGED <<pc, cur, cmdq, nextSink, closed, response_channels, queries,
                   nextQid, peers, store, answered, regLog, logs>>
    /\ UNCHANGED <<exit, ended, handledLog, outbox, surfaced, inbound>>
    /\ UNCHANGED periphery

\* SwarmEvent::Dialing | BannedPeer | ... | OutgoingConnectionError => Ok({})
SwarmIgnored(kind) ==
    /\ pc = "select"
    /\ Len(swarmLog) < MaxSwarm
    /\ Len(IgnoredTaken) < MaxIgnored
    /\ Yield(kind, 0)
    /\ ret' = "Ok"
    /\ UNCHANGED <<pc, cur, cmdq, nextSink, closed, response_channels, queries,
                   nextQid, peers, store, events, answered, regLog, logs>>
    /\ UNCHANGED <<exit, ended, handledLog, outbox, surfaced, inbound>>
    /\ UNCHANGED periphery

\* the command sender the service itself holds (field command_sender)
service_senders == 1

\* recv() that does not count the sender the service holds
recv_is_none_callers(q, senders) == q = <<>> /\ senders <= 1

\* command_receiver.recv() yields None: mailbox empty and no sender left
recv_is_none(q, senders) == q = <<>> /\ senders = 0

\* the error start returns when stream w ends
EndError(w) == IF w = "swarm" THEN "Swarm Event invalid!" ELSE "Command invalid!"

\* the select sees stream w end but start goes on until both have ended
StreamEnd_needs_both(w) ==
    /\ pc = "select"
    /\ w \notin ended
    /\ w = "command" => recv_is_none(cmdq, service_senders + Cardinality(clones))
    /\ ended' = ended \cup {w}
    /\ IF ended' = Streams
       THEN /\ pc' = "stopped"
            /\ exit' = EndError(w)
            /\ cmdq' = <<>>
            /\ response_channels' = <<>>
            /\ queries' = {}
            /\ outbox' = {}
       ELSE UNCHANGED <<pc, exit, cmdq, response_channels, queries, outbox>>
    /\ UNCHANGED <<cur, nextSink, closed, nextQid, peers, store, events,
                   answered, regLog, logs, handledLog, swarmLog>>
    /\ UNCHANGED <<surfaced, inbound>>
    /\ UNCHANGED ret
    /\ UNCHANGED periphery

\* the select sees stream w end and start returns Ok
StreamEnd_returns_ok(w) ==
    /\ pc = "select"
    /\ w = "command" => recv_is_none(cmdq, service_senders + Cardinality(clones))
    /\ ended' = ended \cup {w}
    /\ pc' = "stopped"
    /\ exit' = "Ok"
    /\ cmdq' = <<>>
    /\ response_channels' = <<>>
    /\ queries' = {}
    /\ outbox' = {}
    /\ UNCHANGED <<cur, nextSink, closed, nextQid, peers, store, events,
                   answered, regLog, logs, handledLog, swarmLog>>
    /\ UNCHANGED <<surfaced, inbound>>
    /\ UNCHANGED ret
    /\ UNCHANGED periphery

\* swarm.next() or command_receiver.recv() yields None: ok_or_else(..)?
\* makes start return the error; the service value is dropped.
StreamEnd(w) ==
    /\ pc = "select"
    /\ w = "command" => recv_is_none(cmdq, service_senders + Cardinality(clones))
    /\ ended' = ended \cup {w}
    /\ pc' = "stopped"
    /\ exit' = EndError(w)
    /\ cmdq' = <<>>
    /\ response_channels' = <<>>
    /\ queries' = {}
    /\ outbox' = {}
    /\ UNCHANGED <<cur, nextSink, closed, nextQid, peers, store, events,
                   answered, regLog, logs, handledLog, swarmLog>>
    /\ UNCHANGED <<surfaced, inbound>>
    /\ UNCHANGED ret
    /\ UNCHANGED periphery

\* --------------------------------------------------------- specification
LoopStep ==
    \/ HandleGetBitswap
    \/ HandleSendRequest
    \/ HandleSendResponse
    \/ \E q \in AllQueries, f \in BOOLEAN : SwarmBitswap(q, f)
    \/ BitswapWait
    \/ BitswapReply

Next ==
    \/ \E pr \in Producers, c \in Cids, k \in BitswapTypes : SubmitGetBitswap(pr, c, k)
    \/ \E pr \in Producers : SubmitSendResponse(pr)
    \/ \E pr \in Producers, p \in PeerIds, rq \in Requests : SubmitSendRequest(pr, p, rq)
    \/ \E s \in Sinks : DropReceiver(s)
    \/ \E c \in Cids : StoreInsert(c)
    \/ HandleGetBitswap
    \/ HandleSendRequest
    \/ HandleSendResponse
    \/ \E q \in AllQueries, f \in BOOLEAN : SwarmBitswap(q, f)
    \/ BitswapWait
    \/ BitswapReply
    \/ BitswapStoreError
    \/ \E o \in AllOutbound : RequestDelivered(o)
    \/ \E p \in PeerIds, d \in Payloads : SwarmGossipsub(p, d)
    \/ \E p \in PeerIds : SwarmPeerConnected(p)
    \/ \E p \in PeerIds : SwarmPeerDisconnected(p)
    \/ \E w \in Streams : StreamEnd(w)

Spec == Init /\ [][Next]_vars

\* The loop re-selects and runs handlers as long as it can; every
\* outstanding block-exchange query eventually completes.
FairSpec ==
    /\ Spec
    /\ WF_vars(LoopStep)
    /\ WF_vars(\E q \in AllQueries, f \in BOOLEAN : SwarmBitswap(q, f))
    /\ WF_vars(\E o \in AllOutbound : RequestDelivered(o))

\* The service as constructed from a configuration: relay client on or
\* off, any set of bootstrap nodes.
PeripheryInit ==
    /\ pc = "select"
    /\ cur = NoRun
    /\ cmdq = <<>>
    /\ nextSink = 1
    /\ closed = {}
    /\ response_channels = <<>>
    /\ queries = {}
    /\ nextQid = 1
    /\ peers = {}
    /\ store = {}
    /\ events = <<>>
    /\ answered = <<>>
    /\ regLog = <<>>
    /\ logs = {}
    /\ exit = "running"
    /\ ended = {}
    /\ handledLog = <<>>
    /\ swarmLog = <<>>
    /\ outbox = {}
    /\ surfaced = {}
    /\ inbound = <<>>
    /\ ret = "none"
    /\ nat = "Unknown"
    /\ listeners = <<>>
    /\ relay \in BOOLEAN
    /\ bootstrap \in SUBSET BootstrapAddrs
    /\ published = {}
    /\ behaviour_events = <<>>
    /\ dropped = {}
    /\ clones = Producers

\* The loop taking the commands that answer at once or not at all, next to
\* GetBitswap, which fills the table, and the peer events, which fill the
\* peer set.
CommandsNext ==
    \/ \E pr \in Producers, c \in Cids, k \in BitswapTypes : SubmitGetBitswap(pr, c, k)
    \/ \E pr \in Producers : SubmitGetPeers(pr)
    \/ \E pr \in Producers, cids \in CidLists : SubmitStartProviding(pr, cids)
    \/ \E pr \in Producers, d \in Payloads : SubmitGossipsubMessage(pr, d)
    \/ \E s \in Sinks : DropReceiver(s)
    \/ HandleGetBitswap
    \/ HandleGetPeers
    \/ \E ad_ok \in BOOLEAN : HandleStartProviding(ad_ok)
    \/ \E pub_ok \in BOOLEAN : HandleGossipsubMessage(pub_ok)
    \/ \E p \in PeerIds : SwarmPeerConnected(p)
    \/ \E p \in PeerIds : SwarmPeerDisconnected(p)
    \/ \E pr \in Producers, c \in Cids : SubmitPut(pr, c)
    \/ HandlePut
    \/ \E pr \in Producers : DropSender(pr)
    \/ \E w \in Streams : StreamEnd(w)

CommandsSpec == Init /\ [][CommandsNext]_vars

\* The behaviour's gossipsub handler fed with any events gossipsub can
\* hand it.
GossipNext ==
    \E kind \in GossipsubEvents, p \in PeerIds, data \in Payloads \cup {<<>>} :
        BehaviourGossipsub(kind, p, data)

GossipSpec == Init /\ [][GossipNext]_vars

\* The loop taking the swarm events of NAT probing, inbound requests and
\* connection management, next to GetBitswap and PeerConnected, which fill
\* the table.
PeripheryNext ==
    \/ \E pr \in Producers, c \in Cids, k \in BitswapTypes : SubmitGetBitswap(pr, c, k)
    \/ HandleGetBitswap
    \/ \E p \in PeerIds : SwarmPeerConnected(p)
    \/ \E new \in NatStatuses, b \in BootstrapAddrs, listen_ok \in BOOLEAN :
            SwarmNatStatusChanged(new, b, listen_ok)
    \/ \E p \in PeerIds, rq \in Requests : SwarmRequestMessage(p, rq)
    \/ \E kind \in IgnoredSwarmEvents : SwarmIgnored(kind)

PeripherySpec == PeripheryInit /\ [][PeripheryNext]_vars

TypeOK ==
    /\ pc \in {"select", "wait", "reply", "panicked", "stopped"}
    /\ exit \in {"running", "Swarm Event invalid!", "Command invalid!"}
    /\ ended \subseteq Streams
    /\ nextSink \in 1..(MaxCmds + 1)
    /\ closed \subseteq Sinks
    /\ DOMAIN response_channels \subseteq Cids
    /\ peers \subseteq PeerIds
    /\ store \subseteq Cids
    /\ Len(events) <= MaxEvents
    /\ outbox \subseteq AllOutbound
    /\ Len(inbound) <= MaxInbound
    /\ Len(behaviour_events) <= Len(inbound)
    /\ ret \in {"none", "Ok", "Err"}
    /\ nat \in {"Unknown", "Private", "Public"}
    /\ relay \in BOOLEAN
    /\ dropped \subseteq Sinks
    /\ clones \subseteq Producers

\* ------------------------------------------------------------------ C1
\* C1: every GetBitswap handled with a non-empty peer set (its sender is
\* registered) is eventually sent a reply, unless a stream of the loop ends
\* first, and no reply channel is ever sent a second reply.
C1_ExactlyOneReply ==
    \A s \in Sinks :
        /\ [](Registered(s) => <>(Len(Replies(s)) = 1 \/ pc = "stopped"))
        /\ [](Len(Replies(s)) <= 1)

\* ------------------------------------------------------------------ C2
\* A step of the loop that takes a GetBitswap command from the mailbox
\* while the peer set is empty.
NoPeersStep ==
    /\ pc = "select"
    /\ cmdq # <<>>
    /\ Head(cmdq).type = "GetBitswap"
    /\ cmdq' = Tail(cmdq)
    /\ handledLog' # handledLog
    /\ peers = {}

\* C2: a GetBitswap handled with an empty peer set sends exactly one reply
\* on its channel, the no-peers error, registers no waiter and dispatches
\* no query; that channel never sees another reply.
C2_NoPeersReply ==
    /\ [][NoPeersStep =>
            /\ Len(answered') = Len(answered) + 1
            /\ answered'[Len(answered')].sink = Head(cmdq).sender
            /\ answered'[Len(answered')].res = ReplyNoPeers
            /\ SubSeq(answered', 1, Len(answered)) = answered
            /\ Len(SelectSeq(answered', LAMBDA a : a.sink = Head(cmdq).sender)) = 1
            /\ response_channels' = response_channels
            /\ regLog' = regLog
            /\ queries' = queries
            /\ nextQid' = nextQid]_vars
    /\ [](\A i \in 1..Len(answered) :
            answered[i].res = ReplyNoPeers =>
                /\ Len(Replies(answered[i].sink)) = 1
                /\ ~Registered(answered[i].sink)
                /\ ~InTable(answered[i].sink))

C2_Witness ==
    /\ "no_peers" \in logs
    /\ \E i \in 1..Len(answered) : answered[i].res = ReplyNoPeers

\* ------------------------------------------------------------------ C3
\* C3: every Ok reply was sent for a block the local store contains, and
\* the block stays readable from the store afterwards.
C3_OkImpliesStored ==
    \A i \in 1..Len(answered) :
        answered[i].res = ReplyOk =>
            contains(store, convert_cid(to_bytes(answered[i].cid)))

C3_Witness ==
    \E i \in 1..Len(answered) :
        /\ answered[i].res = ReplyOk
        /\ answered[i].found
        /\ answered[i].delivered

NotFoundReplyStep == pc = "reply" /\ ~cur.found /\ answered' # answered

C5_OneQueryPerCid ==
    \A c \in Cids : Cardinality({q \in queries : q.cid = c}) <= 1

\* ------------------------------------------------------------------ C6
\* C6: the waiters answered by one completion event all receive the same
\* outcome.
C6_SameOutcome ==
    \A i, j \in 1..Len(answered) :
        (answered[i].by # 0 /\ answered[i].by = answered[j].by) =>
            answered[i].res.kind = answered[j].res.kind

\* ------------------------------------------------------------------ C7
\* C7: a run of the completion handler erases the CID's entry and, once it
\* is over, has answered every waiter of the list it took from the table.
C7_AtomicCompletion ==
    /\ pc \in {"wait", "reply"} => cur.cid \notin DOMAIN response_channels
    /\ pc \notin {"wait", "reply"} =>
            \A k \in 1..Len(cur.all) : Answered(cur.all[k])

\* ------------------------------------------------------------------ C8
\* GetBitswap commands for cid handled (registered or refused for lack of
\* peers) and not yet sent a reply.
Unanswered(cid) ==
    {s \in Sinks : /\ \E i \in 1..Len(regLog) :
                         regLog[i].sink = s /\ regLog[i].cid = cid
                    /\ ~Answered(s)}

\* C8 as stated: in every reachable state the table holds, per CID, as
\* many waiters as GetBitswap commands handled and not yet sent a reply.
C8_TableCountsUnanswered ==
    \A c \in Cids : TableCount(c) = Cardinality(Unanswered(c))

\* C8 amended: the equality holds in every state in which the loop is
\* between handler runs (at its select).
C8_TableCountsUnansweredAtSelect ==
    pc = "select" => \A c \in Cids : TableCount(c) = Cardinality(Unanswered(c))

\* between runs, after a completion emptied one entry while waiters of
\* another CID remain
C8_Witness ==
    /\ pc = "select"
    /\ \E c \in Cids : TableCount(c) >= 1
    /\ \E i \in 1..Len(answered) : answered[i].by # 0

\* ------------------------------------------------------------------ C9
\* C9: waiters of one CID are answered in the order they were registered.
C9_RegistrationOrder ==
    \A i, j \in 1..Len(regLog) :
        (i < j /\ regLog[i].cid = regLog[j].cid /\ Answered(regLog[j].sink)) =>
            /\ Answered(regLog[i].sink)
            /\ ReplyPos(regLog[i].sink) < ReplyPos(regLog[j].sink)

\* two waiters of one CID answered by the same completion
C9_Witness ==
    \E i, j \in 1..Len(answered) :
        /\ i < j
        /\ answered[i].by # 0
        /\ answered[i].by = answered[j].by
        /\ answered[i].cid = answered[j].cid

\* ----------------------------------------------------------------- C10
\* A step of the loop that handles a completion whose CID has no entry.
NoEntryCompletionStep ==
    /\ pc = "select"
    /\ pc' # "panicked"
    /\ swarmLog' # swarmLog
    /\ queries' # queries
    /\ queries' \subseteq queries
    /\ \A q \in queries \ queries' : q.cid \notin DOMAIN response_channels

\* C10: a completion for a CID without an entry sends no reply, emits no
\* external event, leaves the table unchanged and returns to the select
\* without waiting on the store; it leaves a debug record.
C10_DroppedCompletion ==
    [][NoEntryCompletionStep =>
            /\ answered' = answered
            /\ events' = events
            /\ response_channels' = response_channels
            /\ pc' = "select"
            /\ cur' = NoRun
            /\ store' = store
            /\ "chan_not_found" \in logs']_vars

C10_Witness ==
    /\ "chan_not_found" \in logs
    /\ pc = "select"
    /\ \E i \in 1..Len(answered) : answered[i].by # 0

\* ----------------------------------------------------------------- C11
\* C11: the block-presence wait of the completion handler always ends, so
\* the handler returns control to the loop.
C11_WaitTerminates == [](pc = "wait" => <>(pc # "wait"))

\* ----------------------------------------------------------------- C12
\* waiter s is held by a run for block_found = true that finds the block
\* absent from the store
FoundButAbsent(s) ==
    /\ pc = "wait"
    /\ \E k \in 1..Len(cur.all) : cur.all[k] = s
    /\ ~contains(store, cur.bitswap_cid)

\* C12: a waiter of a completion with block_found = true that finds the
\* store without the block is still sent the not-found error.
C12_FoundButAbsentIsNotFound ==
    \A s \in Sinks :
        [](FoundButAbsent(s) =>
             <>(\E i \in 1..Len(answered) :
                    answered[i].sink = s /\ answered[i].res.kind = "NotFound"))

\* ----------------------------------------------------------------- C13
\* C13: no handler run aborts the service task.
C13_HandlersNeverAbort == pc # "panicked"

\* ----------------------------------------------------------------- C14
\* C14: whenever the select sees the swarm event stream or the command
\* stream end, the loop stops in that very step and start returns the error
\* of that stream; start never returns anything but one of the two errors.
C14_StreamEndIsFatal ==
    /\ [][ended' # ended =>
            /\ pc' = "stopped"
            /\ \E w \in ended' \ ended : exit' = EndError(w)
            /\ exit' \in {"Swarm Event invalid!", "Command invalid!"}]_vars
    /\ [](pc = "stopped" <=> exit # "running")
    /\ [](exit \in {"running", "Swarm Event invalid!", "Command invalid!"})

\* the swarm stream ended after the loop had handled a command
C14_Witness ==
    /\ pc = "stopped"
    /\ exit = "Swarm Event invalid!"
    /\ handledLog # <<>>

\* ----------------------------------------------------------------- C15
\* C15 as stated: the loop has stopped only if both streams have ended.
C15_StopsOnlyWhenBothEnded == pc = "stopped" => ended = Streams

\* C15 amended: the loop stops, start returning an error, the first time
\* its select sees either stream end; the end of one stream alone
\* terminates it and it never goes on to see the other one end.
C15_StopsWhenEitherEnded ==
    /\ ended # {} => pc = "stopped"
    /\ pc = "stopped" => Cardinality(ended) = 1

\* stopped on the end of the swarm stream with the command stream still open
C15_Witness ==
    /\ pc = "stopped"
    /\ "swarm" \in ended
    /\ "command" \notin ended
    /\ ~recv_is_none(<<>>, service_senders)

\* ----------------------------------------------------------------- C16
\* C16: while a handler run is under way (the completion handler is in its
\* wait or in its reply loop) the loop takes no command and no swarm event,
\* and only that run (or its abort) changes the table and the swarm; a step
\* takes at most one command or swarm event, and only at the select.
C16_SingleWriter ==
    [][/\ pc \in {"wait", "reply"} =>
            /\ handledLog' = handledLog
            /\ swarmLog' = swarmLog
            /\ peers' = peers
            /\ \/ /\ response_channels' = response_channels
                  /\ queries' = queries
                  /\ \A i \in 1..Len(cmdq) : i <= Len(cmdq') /\ cmdq'[i] = cmdq[i]
               \/ pc' = "panicked"
       /\ Len(handledLog') + Len(swarmLog') <= Len(handledLog) + Len(swarmLog) + 1
       /\ (handledLog' # handledLog \/ swarmLog' # swarmLog) => pc = "select"
       /\ (response_channels' # response_channels \/ queries' # queries
                \/ peers' # peers) =>
            \/ Len(handledLog') + Len(swarmLog') = Len(handledLog) + Len(swarmLog) + 1
            \/ pc' \in {"panicked", "stopped"}
      ]_vars

\* a handler run is in its reply loop while a command is pending
C16_Witness ==
    /\ pc = "reply"
    /\ cur.chans # <<>>
    /\ cmdq # <<>>

\* ----------------------------------------------------------------- C17
\* C17: the commands of one producer are taken by the loop in the order
\* that producer submitted them, and none of them overtakes one of the same
\* producer still in the mailbox.
C17_FifoPerProducer ==
    /\ \A i, j \in 1..Len(handledLog) :
            (i < j /\ handledLog[i].from = handledLog[j].from) =>
                handledLog[i].id < handledLog[j].id
    /\ \A i \in 1..Len(handledLog) : \A k \in 1..Len(cmdq) :
            handledLog[i].from = cmdq[k].from => handledLog[i].id < cmdq[k].sender

\* two commands of one producer handled with a swarm event taken in between
C17_Witness ==
    /\ \E i, j \in 1..Len(handledLog) :
            i < j /\ handledLog[i].from = handledLog[j].from
    /\ swarmLog # <<>>

\* ----------------------------------------------------------------- C18
\* the external event the handler of swarm event t emits
EventOf(t) ==
    IF t.type = "GossipsubMessage"
    THEN [type |-> t.type, data |-> t.arg]
    ELSE IF t.type = "RequestMessage"
    THEN [type |-> t.type, request |-> t.arg.request, channel |-> t.arg.channel]
    ELSE [type |-> t.type, peer |-> t.arg]

\* C18: the external event queue only changes in a step in which the loop
\* takes a swarm event and no command, and the change appends, at the end
\* of the queue, the one event of the swarm event taken.
C18_EventsFollowSwarmEvents ==
    /\ [][events' # events =>
            /\ Len(swarmLog') = Len(swarmLog) + 1
            /\ handledLog' = handledLog
            /\ events' = Append(events, EventOf(swarmLog'[Len(swarmLog')]))]_vars
    /\ [](Len(events) <= Len(swarmLog))

\* two events on the stream, after a command was handled as well
C18_Witness ==
    /\ Len(events) = 2
    /\ events[1] # events[2]
    /\ handledLog # <<>>

\* ----------------------------------------------------------------- C19
\* gossip events on the external stream that carry payload d
GossipEvents(d) ==
    SelectSeq(events, LAMBDA e : e.type = "GossipsubMessage" /\ e.data = d)

\* gossip messages with payload d that reached this node from a peer
\* connected to it
GossipInbound(d) == SelectSeq(inbound, LAMBDA m : m.connected /\ m.data = d)

\* C19: every gossip message that reached this node from a connected peer
\* has exactly one GossipMessage event with the same data on the external
\* stream, whatever its payload.
C19_GossipDeliveredOnce ==
    \A d \in Payloads : Len(GossipEvents(d)) = Len(GossipInbound(d))

\* ----------------------------------------------------------------- C20
\* A step of the loop that takes a SendRequest command from the mailbox.
SendRequestStep ==
    /\ pc = "select"
    /\ cmdq # <<>>
    /\ Head(cmdq).type = "SendRequest"
    /\ handledLog' # handledLog

\* C20: a SendRequest handled while its peer is connected is surfaced as a
\* RequestMessage with the same request by that peer's node, as long as the
\* peer stays connected and the streams of the loop do not end, whether or
\* not the caller dropped the reply receiver; the handler sends no reply
\* and leaves the pending-query table alone.
C20_RequestSurfaces ==
    /\ [][SendRequestStep =>
            /\ answered' = answered
            /\ response_channels' = response_channels
            /\ regLog' = regLog]_vars
    /\ \A s \in Sinks, p \in PeerIds, rq \in Requests :
            []([id |-> s, peer |-> p, request |-> rq, connected |-> TRUE] \in outbox =>
                 <>(\/ [id |-> s, peer |-> p, request |-> rq] \in surfaced
                    \/ ~is_connected(peers, p)
                    \/ pc = "stopped"))

\* ----------------------------------------------------------------- C25
\* C25: a waiter whose receiver the caller dropped is in the table whenever
\* the loop is at its select, until a completion for its CID takes the
\* entry out; the run of that completion sends to the closed sink, notes
\* the failure and goes on with the next waiter, the entry being gone; a
\* run that returns has answered every waiter of the list.
C25_DroppedWaiterStays ==
    /\ [](pc = "select" =>
            \A s \in closed : (Registered(s) /\ ~Answered(s)) => InTable(s))
    /\ [][(pc = "reply" /\ answered' # answered /\ Head(cur.chans) \in closed) =>
            /\ answered'[Len(answered')].sink = Head(cur.chans)
            /\ ~answered'[Len(answered')].delivered
            /\ "send_failed" \in logs'
            /\ cur.cid \notin DOMAIN response_channels'
            /\ IF Tail(cur.chans) = <<>>
               THEN pc' = "select"
               ELSE pc' = "reply" /\ cur'.chans = Tail(cur.chans)]_vars
    /\ [][(pc = "reply" /\ pc' = "select") =>
            \A k \in 1..Len(cur.all) :
                \E i \in 1..Len(answered') :
                    answered'[i].sink = cur.all[k] /\ answered'[i].by = cur.qid]_vars

\* one completion found the first waiter's sink closed and then answered
\* the second waiter of the CID
C25_Witness ==
    \E i, j \in 1..Len(answered) :
        /\ i < j
        /\ answered[i].by # 0
        /\ answered[i].by = answered[j].by
        /\ ~answered[i].delivered
        /\ answered[j].delivered

\* ----------------------------------------------------------------- C26
\* C26 as stated: once the caller has dropped its reply sink, the table no
\* longer holds that waiter.
C26_DroppedLeavesTable == \A s \in closed : ~InTable(s)

\* C26 amended: a waiter leaves the table only in the step that handles a
\* completion of a block-exchange query (or when the service task ends);
\* the caller dropping its reply sink leaves the table as it is.
C26_LeavesOnlyOnCompletion ==
    /\ [][\A s \in Sinks :
            (InTable(s) /\ ~InTable(s)') =>
                \/ /\ Len(swarmLog') = Len(swarmLog) + 1
                   /\ swarmLog'[Len(swarmLog')].type = "Bitswap"
                \/ pc' \in {"panicked", "stopped"}]_vars
    /\ [][closed' # closed => response_channels' = response_channels]_vars

\* a waiter whose sink was dropped is still in the table
C26_Witness == \E s \in closed : InTable(s)

\* ----------------------------------------------------------------- C27
\* C27: when a gossip message is handled, an external event is emitted for
\* it only if its sender is connected at that moment, and the event is the
\* message; for a sender that is not connected nothing is emitted.
C27_GossipOnlyIfConnected ==
    [][inbound' # inbound =>
        LET m == inbound'[Len(inbound')] IN
            /\ events' # events =>
                    /\ m.peer \in peers
                    /\ events' = Append(events,
                            [type |-> "GossipsubMessage", data |-> m.data])
            /\ m.peer \notin peers => events' = events]_vars

\* a gossip message with a CID payload from a peer that is not connected
\* reached the handler and no event was emitted for it
C27_Witness ==
    /\ \E i \in 1..Len(inbound) : ~inbound[i].connected /\ try_from(inbound[i].data)
    /\ \E i \in 1..Len(swarmLog) : swarmLog[i].type = "GossipsubMessage"
    /\ \A i \in 1..Len(events) : events[i].type # "GossipsubMessage"

\* ----------------------------------------------------------------- C29
\* the peer events among the swarm events taken, in the order taken
PeerLog ==
    SelectSeq(swarmLog, LAMBDA t : t.type \in {"PeerConnected", "PeerDisconnected"})

\* the peer events on the external stream, in stream order
PeerEvents ==
    SelectSeq(events, LAMBDA e : e.type \in {"PeerConnected", "PeerDisconnected"})

\* C29: the peer events on the external stream are, one for one and in the
\* same order, the PeerConnected / PeerDisconnected swarm events handled;
\* handling one returns Ok and changes neither the table nor any reply.
C29_PeerEventsForwarded ==
    /\ [](/\ Len(PeerEvents) = Len(PeerLog)
          /\ \A i \in 1..Len(PeerLog) :
                PeerEvents[i] = [type |-> PeerLog[i].type, peer |-> PeerLog[i].arg])
    /\ [][(/\ Len(swarmLog') = Len(swarmLog) + 1
           /\ swarmLog'[Len(swarmLog')].type \in {"PeerConnected", "PeerDisconnected"}) =>
            /\ ret' = "Ok"
            /\ pc' = "select"
            /\ response_channels' = response_channels
            /\ answered' = answered]_vars

\* a connection and a disconnection forwarded while the table holds a waiter
C29_Witness ==
    /\ Len(events) = 2
    /\ events[1] = [type |-> "PeerConnected", peer |-> 1]
    /\ events[2] = [type |-> "PeerDisconnected", peer |-> 1]
    /\ response_channels # <<>>

\* ----------------------------------------------------------------- C21
\* the loop has just taken a swarm event of one of the given types
SwarmStep(types) ==
    /\ Len(swarmLog') = Len(swarmLog) + 1
    /\ swarmLog'[Len(swarmLog')].type \in types

CmdStep(type) ==
    /\ pc = "select"
    /\ cmdq # <<>>
    /\ dequeue(cmdq).cmd.type = type
    /\ Len(handledLog') = Len(handledLog) + 1

\* the reply the step has just sent
LastReply == answered'[Len(answered')]

\* C22: handling GetPeers sends, on the command's sink, the peer set as it
\* is when the command is handled; the handler returns Err if the sink is
\* closed and Ok otherwise, the loop goes on either way, and the peer set,
\* the queries, the outbound requests and the table stay as they were.
C22_GetPeersSnapshot ==
    [][CmdStep("GetPeers") =>
        LET cmd == dequeue(cmdq).cmd IN
        /\ Len(answered') = Len(answered) + 1
        /\ LastReply.sink = cmd.sender
        /\ LastReply.res = [kind |-> "Peers", peers |-> peers]
        /\ LastReply.delivered = (cmd.sender \notin closed)
        /\ ret' = (IF cmd.sender \in closed THEN "Err" ELSE "Ok")
        /\ pc' = "select"
        /\ peers' = peers
        /\ queries' = queries
        /\ outbox' = outbox
        /\ response_channels' = response_channels]_vars

\* one GetPeers answered into a closed sink and one that delivered a
\* non-empty peer set
C22_Witness ==
    \E i, j \in 1..Len(answered) :
        /\ answered[i].res.kind = "Peers"
        /\ ~answered[i].delivered
        /\ answered[j].res = [kind |-> "Peers", peers |-> PeerIds]
        /\ answered[j].delivered

\* ----------------------------------------------------------------- C23
\* C23: handling StartProviding sends, on the command's sink, Ok with the
\* command's list of CIDs, element for element, whatever publish_ad
\* returned; the handler returns Ok and the table stays as it was.
C23_StartProvidingEchoes ==
    [][CmdStep("StartProviding") =>
        LET cmd == dequeue(cmdq).cmd IN
        /\ Len(answered') = Len(answered) + 1
        /\ LastReply.sink = cmd.sender
        /\ LastReply.res.kind = "Provided"
        /\ Len(LastReply.res.cids) = Len(cmd.cids)
        /\ \A i \in 1..Len(cmd.cids) : LastReply.res.cids[i] = cmd.cids[i]
        /\ ret' = "Ok"
        /\ pc' = "select"
        /\ response_channels' = response_channels]_vars

\* a list of two different CIDs echoed after publish_ad failed, and a
\* reply after publish_ad succeeded
C23_Witness ==
    /\ {"ad_failed", "ad_published"} \subseteq logs
    /\ \E i \in 1..Len(answered) :
        /\ answered[i].res.kind = "Provided"
        /\ Len(answered[i].res.cids) = 2
        /\ answered[i].res.cids[1] # answered[i].res.cids[2]
        /\ answered[i].delivered

\* ----------------------------------------------------------------- C24
\* C24: handling GossipsubMessage returns Ok whether the publish failed
\* or not, sends no reply, emits no event, leaves the table as it was, and
\* the loop goes on with the rest of the mailbox.
C24_PublishFailureSwallowed ==
    [][CmdStep("GossipsubMessage") =>
        /\ ret' = "Ok"
        /\ pc' = "select"
        /\ answered' = answered
        /\ events' = events
        /\ response_channels' = response_channels
        /\ cmdq' = dequeue(cmdq).rest]_vars

\* a publish failed, and the loop then took a GetBitswap and registered
\* its waiter
C24_Witness ==
    /\ "publish_failed" \in logs
    /\ published = {}
    /\ behaviour_events = <<>>
    /\ dropped = {}
    /\ clones = Producers
    /\ Len(handledLog) = 2
    /\ handledLog[1].id = 1
    /\ InTable(2)
    /\ ret = "Ok"
    /\ pc = "select"

\* ----------------------------------------------------------------- C28
\* the inbound requests among the swarm events taken, in the order taken
RequestLog == SelectSeq(swarmLog, LAMBDA t : t.type = "RequestMessage")

\* the inbound requests on the external stream, in stream order
RequestEvents == SelectSeq(events, LAMBDA e : e.type = "RequestMessage")

\* C28: the RequestMessage events on the external stream are, one for one,
\* the RequestMessage swarm events handled, each with the request and the
\* response channel of its swarm event, so no channel is handed out twice;
\* handling one returns Ok and changes neither the table nor any reply.
C28_RequestForwardedOnce ==
    /\ [](/\ Len(RequestEvents) = Len(RequestLog)
          /\ \A i \in 1..Len(RequestLog) :
                RequestEvents[i] = [type |-> "RequestMessage",
                                    request |-> RequestLog[i].arg.request,
                                    channel |-> RequestLog[i].arg.channel]
          /\ \A i, j \in 1..Len(RequestEvents) :
                RequestEvents[i].channel = RequestEvents[j].channel => i = j)
    /\ [][SwarmStep({"RequestMessage"}) =>
            /\ ret' = "Ok"
            /\ pc' = "select"
            /\ Len(events') = Len(events) + 1
            /\ response_channels' = response_channels
            /\ answered' = answered]_vars

\* two inbound requests forwarded, each with its own channel
C28_Witness ==
    /\ Len(RequestEvents) = 2
    /\ RequestEvents[1].request # RequestEvents[2].request
    /\ RequestEvents[1].channel # RequestEvents[2].channel
    /\ ret = "Ok"

\* ----------------------------------------------------------------- C30
\* C30: handling a swarm event that is not a behaviour event returns Ok,
\* emits no external event, sends no reply, leaves the pending-query table
\* and the queries as they were, and the loop goes on.
C30_OtherSwarmEventsIgnored ==
    [][SwarmStep(IgnoredSwarmEvents) =>
        /\ ret' = "Ok"
        /\ pc' = "select"
        /\ events' = events
        /\ answered' = answered
        /\ response_channels' = response_channels
        /\ queries' = queries
        /\ listeners' = listeners]_vars

\* an ignored swarm event taken after a peer event was forwarded and while
\* the table holds a waiter
C30_Witness ==
    /\ swarmLog # <<>>
    /\ swarmLog[Len(swarmLog)].type \in IgnoredSwarmEvents
    /\ events # <<>>
    /\ response_channels # <<>>
    /\ ret = "Ok"

\* ----------------------------------------------------------------- C31
\* C31: the step that takes a block-exchange completion cancels the
\* event's query on the behaviour and answers nobody, whether or not the
\* table holds waiters for the CID; so whenever a waiter has been answered
\* by a completion, that completion's query is no longer with the
\* behaviour; and cancelling a query the behaviour no longer holds leaves
\* its queries as they are.
C31_CancelBeforeAnswer ==
    /\ [][SwarmStep({"Bitswap"}) =>
            LET id == swarmLog'[Len(swarmLog')].arg IN
            /\ queries' = cancel(queries, id)
            /\ \A q \in queries' : q.id # id
            /\ answered' = answered]_vars
    /\ [](\A i \in 1..Len(answered) :
            answered[i].by # 0 => \A q \in queries : q.id # answered[i].by)
    /\ [](pc \in {"wait", "reply"} => \A q \in queries : q.id # cur.qid)
    /\ [](\A id \in 1..(nextQid - 1) :
            /\ cancel(cancel(queries, id), id) = cancel(queries, id)
            /\ (\A q \in queries : q.id # id) => cancel(queries, id) = queries)

\* a completion answered its waiters, a second one for the same CID found
\* no entry, and both queries are cancelled
C31_Witness ==
    /\ "chan_not_found" \in logs
    /\ \E i \in 1..Len(answered) : answered[i].by # 0
    /\ nextQid = 3
    /\ queries = {}

C33_KnobsAsSpecified ==
    pc \in {"select", "wait", "reply"} =>
    /\ max_pending_incoming = 2^9
    /\ max_pending_outgoing = 2^9
    /\ max_established_incoming = 2^9
    /\ max_established_outgoing = 2^9
    /\ max_established_per_peer = 8
    /\ dial_concurrency_factor = 8
    /\ notify_handler_buffer_size = 2^7
    /\ connection_event_buffer_size = 2^7

\* ----------------------------------------------------------------- C34
\* C34: handling Put returns Ok and sends nothing: the command's reply
\* sender is dropped unused, so its sink never sees a reply, and the
\* peer set, the queries, the outbound requests, the store, the events
\* and the table stay as they were.
C34_PutIsNoOp ==
    /\ [][CmdStep("Put") =>
            /\ ret' = "Ok"
            /\ pc' = "select"
            /\ answered' = answered
            /\ dequeue(cmdq).cmd.sender \in dropped'
            /\ events' = events
            /\ peers' = peers
            /\ queries' = queries
            /\ outbox' = outbox
            /\ store' = store
            /\ response_channels' = response_channels]_vars
    /\ [](\A s \in dropped : Replies(s) = <<>>)

\* a Put handled while the table holds a waiter
C34_Witness ==
    /\ dropped # {}
    /\ response_channels # <<>>
    /\ ret = "Ok"
    /\ pc = "select"

\* ----------------------------------------------------------------- C35
\* C35: with two waiters registered for one CID, the first completion
\* handled for that CID, whichever query it is from, takes the whole list
\* from the table, and the run it starts ends only with every waiter of
\* the list answered by it, the waiter whose own query is still with the
\* behaviour included; a completion that finds no entry answers nobody.
C35_FirstCompletionAnswersAll ==
    /\ [][(SwarmStep({"Bitswap"}) /\ pc' \in {"wait", "reply"}) =>
            /\ cur'.all = response_channels[cur'.cid]
            /\ cur'.cid \notin DOMAIN response_channels']_vars
    /\ [][(pc \in {"wait", "reply"} /\ pc' \notin {"wait", "reply"} /\ Len(cur.all) >= 2) =>
            \A k \in 1..Len(cur.all) :
                \E i \in 1..Len(answered') :
                    answered'[i].sink = cur.all[k] /\ answered'[i].by = cur.qid]_vars
    /\ [][(SwarmStep({"Bitswap"}) /\ pc' = "select") => answered' = answered]_vars

\* ----------------------------------------------------------------- C36
\* the waiters table rc holds for cid
WaitersOf(rc, cid) == IF cid \in DOMAIN rc THEN rc[cid] ELSE <<>>

\* C36: in every step that leaves the service alive, the table gains one
\* waiter, at the end of its CID's list, if the step handles a GetBitswap
\* with a non-empty peer set; it loses the whole list of the event's CID
\* if the step takes a block-exchange completion; and it stays as it was
\* in every other step.
C36_TableFrame ==
    [][pc' \notin {"panicked", "stopped"} =>
        IF CmdStep("GetBitswap") /\ peers # {}
        THEN LET cmd == dequeue(cmdq).cmd IN
             \A c \in Cids :
                WaitersOf(response_channels', c) =
                    IF c = cmd.cid
                    THEN Append(WaitersOf(response_channels, c), cmd.sender)
                    ELSE WaitersOf(response_channels, c)
        ELSE IF SwarmStep({"Bitswap"})
        THEN LET id == swarmLog'[Len(swarmLog')].arg
                 q == CHOOSE x \in queries : x.id = id IN
             /\ q.cid \notin DOMAIN response_channels'
             /\ \A c \in Cids \ {q.cid} :
                    WaitersOf(response_channels', c) = WaitersOf(response_channels, c)
        ELSE response_channels' = response_channels]_vars

\* two waiters were registered, a completion has taken the list of the
\* first one's CID and answered it, and the second waiter is in the table
C36_Witness ==
    /\ Len(regLog) = 2
    /\ \E i \in 1..Len(answered) :
            answered[i].by # 0 /\ answered[i].sink = regLog[1].sink
    /\ ~InTable(regLog[1].sink)
    /\ InTable(regLog[2].sink)
    /\ pc = "select"

\* ----------------------------------------------------------------- C37
\* C37: the command stream never ends: recv() cannot yield None while the
\* service lives, whatever senders the callers have dropped, so the select
\* never sees the command stream end and start never returns
\* "Command invalid!".
C37_CommandStreamNeverEnds ==
    /\ pc \notin {"panicked", "stopped"} =>
            ~recv_is_none(cmdq, service_senders + Cardinality(clones))
    /\ "command" \notin ended
    /\ exit # "Command invalid!"

\* every caller has dropped its sender, the mailbox is drained and the
\* loop is at its select
C37_Witness ==
    /\ clones = {}
    /\ cmdq = <<>>
    /\ handledLog # <<>>
    /\ pc = "select"
    /\ exit = "running"

\* ----------------------------------------------------------------- C38
\* C38: nothing is ever taken from the external event queue: every step
\* leaves the events queued so far in place, in order; and a send on the
\* event sender never fails: the step that handles a peer event, or a
\* gossip message of a connected peer, queues one event more.
C38_EventsNeverRead ==
    /\ [][/\ Len(events') >= Len(events)
           /\ SubSeq(events', 1, Len(events)) = events]_vars
    /\ [][SwarmStep({"PeerConnected", "PeerDisconnected"}) =>
            Len(events') = Len(events) + 1]_vars
    /\ [][(SwarmStep({"GossipsubMessage"}) /\ inbound'[Len(inbound')].connected) =>
            Len(events') = Len(events) + 1]_vars
    /\ [](event_receivers > 0 /\ Len(events) <= Len(swarmLog))

\* two events are queued and stay queued while the loop handles commands
\* and stops on the end of the swarm stream
C38_Witness ==
    /\ Len(events) = 2
    /\ Len(handledLog) = 2
    /\ pc = "stopped"

\* ----------------------------------------------------------------- C39
\* C39: every CID that is a key of the table maps to a list of at least
\* one waiter, and the table is empty until the first command is handled,
\* so it is empty when the service is constructed.
C39_NoEmptyLists ==
    /\ \A c \in DOMAIN response_channels : Len(response_channels[c]) >= 1
    /\ handledLog = <<>> => response_channels = <<>>

\* a completion has removed the entry of one CID and the entry of another
\* CID is the only key left
C39_Witness ==
    /\ Len(regLog) = 2
    /\ regLog[1].cid # regLog[2].cid
    /\ \E i \in 1..Len(answered) : answered[i].by # 0 /\ answered[i].cid = regLog[1].cid
    /\ DOMAIN response_channels = {regLog[2].cid}

====
